---- MODULE Spec2Model ----
(***************************************************************************)
(* io-prompt-prototype: read_line and the prompt!, promptln!, eprompt!,    *)
(* epromptln! macros of src/lib.rs, modelled as a host program that calls  *)
(* them one after the other on the process's standard streams.             *)
(*                                                                         *)
(* A stream is a sequence of characters.  The characters that matter to    *)
(* the code are the line feed and the carriage return; every other         *)
(* character behaves alike, so one ordinary input character and one        *)
(* ordinary prompt character stand for them.                               *)
(***************************************************************************)
EXTENDS Integers, Sequences, FiniteSets, TLC

LF == "LF"
CR == "CR"
Chars == {"a", CR, LF}

\* Longest standard input the host program is started with.
MaxInput == 4
\* Number of calls the host program makes.
MaxCalls == 2

SeqsUpTo(n) == UNION {[1..k -> Chars] : k \in 0..n}

\* The formatted text handed to print!/println! ($($arg)* after formatting).
Texts == {<<>>, <<"P">>}

Prompts == {"prompt", "promptln", "eprompt", "epromptln"}
Ops == Prompts \cup {"read_line"}

\* The io::Error kinds the streams may report.
IoErrors == {"BrokenPipe", "InvalidData"}

VARIABLES
    stdin,        \* unread bytes of the standard input
    stdout,       \* bytes written to the standard output
    stderr,       \* bytes written to the standard error
    pc,           \* position of the host program inside the current call
    op,           \* the operation being called
    text,         \* the formatted prompt text of the current call
    result,       \* what the current call evaluated to
    calls,        \* number of calls started
    trace,        \* steps of the current call that completed, in order
    failed,       \* the step of the current call that failed, and its error
    input0,       \* the standard input the program was started with
    consumed,     \* raw lines returned by successful read_line calls, in order
    readFailedEver, \* some read of the standard input has failed
    stdinAtCall, stdoutAtCall, stderrAtCall  \* the streams when the call began

vars == <<stdin, stdout, stderr, pc, op, text, result, calls, trace, failed,
          input0, consumed, readFailedEver, stdinAtCall, stdoutAtCall,
          stderrAtCall>>

----------------------------------------------------------------------------
(* String primitives *)

ends_with(s, c) == Len(s) > 0 /\ s[Len(s)] = c

pop(s) == IF Len(s) = 0 THEN s ELSE SubSeq(s, 1, Len(s) - 1)

\* str::strip_suffix borrows: it yields the shortened slice and leaves s alone.
strip_suffix(s, c) ==
    IF ends_with(s, c) THEN [some |-> TRUE, val |-> SubSeq(s, 1, Len(s) - 1)]
                       ELSE [some |-> FALSE, val |-> s]

\* Index of the first line feed of s, 0 when there is none.
FirstLF(s) ==
    IF \E i \in 1..Len(s) : s[i] = LF
    THEN CHOOSE i \in 1..Len(s) : s[i] = LF /\ \A j \in 1..(i - 1) : s[j] # LF
    ELSE 0

\* A mutation of stdin_read_line: the whole input is taken (read_to_string).
stdin_read_to_end(in) == [line |-> in, rest |-> <<>>]

\* Stdin::read_line into a new String: everything up to and including the
\* first line feed, or everything up to end-of-stream.
stdin_read_line(in) ==
    LET i == FirstLF(in) IN
    IF i = 0 THEN [line |-> in, rest |-> <<>>]
             ELSE [line |-> SubSeq(in, 1, i), rest |-> SubSeq(in, i + 1, Len(in))]

\* prompt!/eprompt!: the two ends_with/pop statements.
strip_pop(s) ==
    LET s1 == IF ends_with(s, LF) THEN pop(s) ELSE s
        s2 == IF ends_with(s1, CR) THEN pop(s1) ELSE s1
    IN s2

\* promptln!/epromptln!: the strip_suffix results are discarded.
strip_discard(s) ==
    IF strip_suffix(s, LF).some
    THEN LET unused == strip_suffix(s, CR) IN s
    ELSE s

Strip(o, s) == IF o \in {"prompt", "eprompt"} THEN strip_pop(s) ELSE strip_discard(s)

----------------------------------------------------------------------------
(* What each macro writes, where, and what it says when it aborts *)

\* print! and println! both write to the standard output.
WriteStream(o) == "stdout"

\* stdout().flush() in all four macros.
FlushStream(o) == "stdout"

\* println! appends one line feed to the formatted text.
Written(o, t) == IF o \in {"promptln", "epromptln"} THEN t \o <<LF>> ELSE t

\* print!/println! panic with std's own message.
PrintPanicMsg(o) == "failed printing to stdout"

FlushPanicMsg(o) == "failed writing to stdout"

ReadPanicMsg(o) ==
    IF o \in {"prompt", "promptln"} THEN "failed reading from stdin"
                                    ELSE "failed reading from stderr"

NoResult == [kind |-> "none", val |-> <<>>, err |-> "none", msg |-> ""]
Ok(v) == [kind |-> "ok", val |-> v, err |-> "none", msg |-> ""]
Err(e) == [kind |-> "err", val |-> <<>>, err |-> e, msg |-> ""]
Panic(m, e) == [kind |-> "panic", val |-> <<>>, err |-> e, msg |-> m]

\* A mutation of read_line_result: read_line unwraps instead of using the ? operator.
read_line_unwrap(r) ==
    IF r.ok THEN Ok(r.val) ELSE Panic("called Result::unwrap() on an Err value", r.err)

\* read_line: the ? operator hands the error back, Ok(input) otherwise.
read_line_result(r) == IF r.ok THEN Ok(r.val) ELSE Err(r.err)

\* A mutation of expect: the error is swallowed (unwrap_or_default).
unwrap_or_default(r, m) == IF r.kind = "ok" THEN r ELSE Ok(<<>>)

\* Result::expect(msg): the value, or a panic carrying msg.
expect(r, m) == IF r.kind = "ok" THEN r ELSE Panic(m, r.err)

\* A mutation of StepAfter: the flush is placed after the read.
StepAfterFlushLast(o, step) ==
    IF o = "read_line" THEN (IF step = "call" THEN "read" ELSE "returned")
    ELSE CASE step = "call"  -> "write"
           [] step = "write" -> "read"
           [] step = "read"  -> "flush"
           [] step = "flush" -> "returned"

\* The statement order of each body: read_line only reads; the macros
\* print, flush, then read.
StepAfter(o, step) ==
    IF o = "read_line" THEN (IF step = "call" THEN "read" ELSE "returned")
    ELSE CASE step = "call"  -> "write"
           [] step = "write" -> "flush"
           [] step = "flush" -> "read"
           [] step = "read"  -> "returned"

----------------------------------------------------------------------------
(* The state machine *)

Init ==
    /\ stdin \in SeqsUpTo(MaxInput)
    /\ input0 = stdin
    /\ stdout = <<>>
    /\ stderr = <<>>
    /\ pc = "idle"
    /\ op = "read_line"
    /\ text = <<>>
    /\ result = NoResult
    /\ calls = 0
    /\ trace = <<>>
    /\ failed = [step |-> "none", err |-> "none"]
    /\ consumed = <<>>
    /\ readFailedEver = FALSE
    /\ stdinAtCall = stdin
    /\ stdoutAtCall = <<>>
    /\ stderrAtCall = <<>>

\* The host program starts a call.
Call ==
    /\ pc = "idle"
    /\ calls < MaxCalls
    /\ \E o \in Ops, t \in Texts :
        /\ (o = "read_line" => t = <<>>)
        /\ op' = o
        /\ text' = t
        /\ pc' = StepAfter(o, "call")
    /\ calls' = calls + 1
    /\ result' = NoResult
    /\ trace' = <<>>
    /\ failed' = [step |-> "none", err |-> "none"]
    /\ stdinAtCall' = stdin
    /\ stdoutAtCall' = stdout
    /\ stderrAtCall' = stderr
    /\ UNCHANGED <<stdin, stdout, stderr, input0, consumed, readFailedEver>>

\* print!/println! succeeds.
PrintOk ==
    /\ pc = "write"
    /\ IF WriteStream(op) = "stdout"
       THEN stdout' = stdout \o Written(op, text) /\ UNCHANGED stderr
       ELSE stderr' = stderr \o Written(op, text) /\ UNCHANGED stdout
    /\ trace' = Append(trace, [step |-> "write", stream |-> WriteStream(op)])
    /\ pc' = StepAfter(op, "write")
    /\ UNCHANGED <<stdin, op, text, result, calls, failed, input0, consumed,
                   readFailedEver, stdinAtCall, stdoutAtCall, stderrAtCall>>

\* print!/println! fails: the macro of std panics.
PrintFail ==
    /\ pc = "write"
    /\ \E e \in IoErrors :
        /\ failed' = [step |-> "write", err |-> e]
        /\ result' = Panic(PrintPanicMsg(op), e)
    /\ pc' = "panicked"
    /\ UNCHANGED <<stdin, stdout, stderr, op, text, calls, trace, input0,
                   consumed, readFailedEver, stdinAtCall, stdoutAtCall,
                   stderrAtCall>>

\* stdout().flush() succeeds.
FlushOk ==
    /\ pc = "flush"
    /\ expect(Ok(<<>>), FlushPanicMsg(op)).kind = "ok"
    /\ trace' = Append(trace, [step |-> "flush", stream |-> FlushStream(op)])
    /\ pc' = StepAfter(op, "flush")
    /\ UNCHANGED <<stdin, stdout, stderr, op, text, result, calls, failed,
                   input0, consumed, readFailedEver, stdinAtCall, stdoutAtCall,
                   stderrAtCall>>

\* stdout().flush() fails: expect decides what becomes of the call.
FlushFail ==
    /\ pc = "flush"
    /\ \E e \in IoErrors :
        LET r == expect(Err(e), FlushPanicMsg(op)) IN
        /\ failed' = [step |-> "flush", err |-> e]
        /\ IF r.kind = "panic"
           THEN result' = r /\ pc' = "panicked" /\ UNCHANGED trace
           ELSE /\ UNCHANGED result
                /\ pc' = StepAfter(op, "flush")
                /\ trace' = Append(trace, [step |-> "flush", stream |-> FlushStream(op)])
    /\ UNCHANGED <<stdin, stdout, stderr, op, text, calls, input0, consumed,
                   readFailedEver, stdinAtCall, stdoutAtCall, stderrAtCall>>

\* What a call makes of the outcome r of Stdin::read_line.
ReadOutcome(o, r) ==
    IF o = "read_line" THEN read_line_result(r)
    ELSE LET x == expect(read_line_result(r), ReadPanicMsg(o)) IN
         IF x.kind = "ok" THEN Ok(Strip(o, x.val)) ELSE x

\* Stdin::read_line succeeds: one line leaves the input.
ReadOk ==
    /\ pc = "read"
    /\ LET got == stdin_read_line(stdin)
           r   == ReadOutcome(op, [ok |-> TRUE, val |-> got.line, err |-> "none"])
       IN /\ stdin' = got.rest
          /\ consumed' = Append(consumed, got.line)
          /\ result' = r
          /\ pc' = IF r.kind = "panic" THEN "panicked" ELSE StepAfter(op, "read")
    /\ trace' = Append(trace, [step |-> "read", stream |-> "stdin"])
    /\ UNCHANGED <<stdout, stderr, op, text, calls, failed, input0,
                   readFailedEver, stdinAtCall, stdoutAtCall, stderrAtCall>>

\* Stdin::read_line fails.  The bytes the reader took before the error are
\* lost: any part of the pending line may be gone.
ReadFail ==
    /\ pc = "read"
    /\ \E e \in IoErrors, n \in 0..Len(stdin_read_line(stdin).line) :
        LET r == ReadOutcome(op, [ok |-> FALSE, val |-> <<>>, err |-> e]) IN
        /\ stdin' = SubSeq(stdin, n + 1, Len(stdin))
        /\ failed' = [step |-> "read", err |-> e]
        /\ result' = r
        /\ pc' = IF r.kind = "panic" THEN "panicked" ELSE StepAfter(op, "read")
    /\ readFailedEver' = TRUE
    /\ UNCHANGED <<stdout, stderr, op, text, calls, trace, input0, consumed,
                   stdinAtCall, stdoutAtCall, stderrAtCall>>

\* The call has evaluated; the host program goes on.
Return ==
    /\ pc = "returned"
    /\ pc' = "idle"
    /\ UNCHANGED <<stdin, stdout, stderr, op, text, result, calls, trace,
                   failed, input0, consumed, readFailedEver, stdinAtCall,
                   stdoutAtCall, stderrAtCall>>

Next ==
    \/ Call
    \/ PrintOk
    \/ PrintFail
    \/ FlushOk
    \/ FlushFail
    \/ ReadOk
    \/ ReadFail
    \/ Return

Spec == Init /\ [][Next]_vars

----------------------------------------------------------------------------
(* Properties *)

\* The call has come to an end, by a value or by a panic.
Returned == pc = "returned"

\* The stream each variant is documented to prompt on.
DocumentedStream(o) == IF o \in {"prompt", "promptln"} THEN "stdout" ELSE "stderr"

\* The messages that report a failed write or flush on stream st.
WriteFailureMsgs(st) ==
    IF st = "stdout"
    THEN {"failed writing to stdout", "failed printing to stdout"}
    ELSE {"failed writing to stderr", "failed printing to stderr"}

\* The input the call began with is one line L followed by a line feed.
HoldsLineLF(in) == Len(in) >= 1 /\ FirstLF(in) = Len(in)

\* The input the call began with is one line L followed by CR LF.
HoldsLineCRLF(in) == Len(in) >= 2 /\ FirstLF(in) = Len(in) /\ in[Len(in) - 1] = CR

\* C1: when the input holds L followed by a line feed, L free of line feeds,
\* prompt! and promptln! return exactly L.
C1_LineFeedStripped ==
    (Returned /\ op \in {"prompt", "promptln"} /\ result.kind = "ok"
        /\ HoldsLineLF(stdinAtCall))
    => result.val = SubSeq(stdinAtCall, 1, Len(stdinAtCall) - 1)

\* C2: when the input holds L followed by CR LF, each of the four prompting
\* operations returns exactly L: both terminator characters go, nothing else.
C2_CRLFStripped ==
    (Returned /\ op \in Prompts /\ result.kind = "ok"
        /\ HoldsLineCRLF(stdinAtCall))
    => result.val = SubSeq(stdinAtCall, 1, Len(stdinAtCall) - 2)

\* C3: when the input holds L without a terminator and then ends, a prompting
\* operation returns L unchanged, also when L is empty or ends in a carriage
\* return.
C3_UnterminatedUnchanged ==
    (Returned /\ op \in Prompts /\ result.kind = "ok"
        /\ FirstLF(stdinAtCall) = 0)
    => result.val = stdinAtCall

\* C4: eprompt! and epromptln! write the prompt text to the standard error,
\* write nothing to the standard output, and read their line from the
\* standard input.
C4_ErrorVariantsWriteToStderr ==
    (Returned /\ op \in {"eprompt", "epromptln"})
    => /\ stdout = stdoutAtCall
       /\ stderr = stderrAtCall \o (IF op = "epromptln" THEN text \o <<LF>> ELSE text)
       /\ Len(stdin) < Len(stdinAtCall) \/ stdinAtCall = <<>>

\* C5: for the same text and the same input, promptln! returns what prompt!
\* returns, and writes what prompt! writes followed by exactly one line feed.
C5_PromptlnIsPromptPlusNewline ==
    (Returned /\ op = "promptln" /\ result.kind = "ok")
    => /\ result.val = strip_pop(stdin_read_line(stdinAtCall).line)
       /\ stdout = stdoutAtCall \o text \o <<LF>>

\* C6: in each of the four prompting operations a failed write, flush or read
\* aborts the call: no text value is returned after a failed step, and no
\* recoverable error value is ever returned.
C6_FailureAborts ==
    op \in Prompts
    => /\ failed.step # "none" => (pc = "panicked" /\ result.kind = "panic")
       /\ result.kind # "err"
       /\ Returned => (failed.step = "none" /\ result.kind = "ok")

C6_Witness ==
    op \in Prompts /\ failed.step = "flush" /\ pc = "panicked"

\* C7: read_line never aborts: a failed read comes back as an error result
\* that carries the failure, a successful read as a success result.
C7_ReadLineRecoverable ==
    op = "read_line"
    => /\ pc # "panicked" /\ result.kind # "panic"
       /\ failed.step = "read" => (pc \in {"returned", "idle"} /\ result = Err(failed.err))
       /\ (Returned /\ failed.step = "none") => result.kind = "ok"

C7_Witness ==
    op = "read_line" /\ Returned /\ failed.step = "read"
        /\ result.kind = "err" /\ result.err = "BrokenPipe"

\* Positions of the line feeds of s.
LFPositions(s) == {i \in 1..Len(s) : s[i] = LF}

\* Number of lines of s: one per line feed, one more for an unterminated tail.
NumLines(s) ==
    Cardinality(LFPositions(s)) + (IF Len(s) > 0 /\ s[Len(s)] # LF THEN 1 ELSE 0)

\* Index of the last character of the k-th line of s (0 for k = 0).
LineEnd(s, k) ==
    IF k = 0 THEN 0
    ELSE IF k <= Cardinality(LFPositions(s))
         THEN CHOOSE i \in LFPositions(s) :
                  Cardinality({j \in LFPositions(s) : j <= i}) = k
         ELSE Len(s)

\* The k-th line of s, terminator included.
LineOf(s, k) == SubSeq(s, LineEnd(s, k - 1) + 1, LineEnd(s, k))

\* C8: each successful read_line call consumes exactly one line: while no
\* read has failed, the k-th call returned the k-th line of the input raw,
\* terminator included, and the unread input is exactly the lines after it.
C8_OneLinePerCall ==
    ~readFailedEver
    => LET k == Len(consumed)
           n == NumLines(input0)
       IN /\ \A i \in 1..k : i <= n => consumed[i] = LineOf(input0, i)
          /\ k <= n => stdin = SubSeq(input0, LineEnd(input0, k) + 1, Len(input0))

C8_Witness ==
    /\ op = "read_line" /\ Returned /\ ~readFailedEver
    /\ Len(consumed) = 2
    /\ result.val = consumed[2]
    /\ consumed[1] = <<"a", LF>>
    /\ consumed[2] = <<CR, LF>>
    /\ stdin = <<>>

\* C9: a prompting operation writes, then flushes the stream it wrote to,
\* then reads: no input is consumed before that flush has completed, and a
\* failed write or flush leaves the input as it was.
C9_WriteFlushRead ==
    op \in Prompts
    => /\ Len(trace) <= 3
       /\ \A i \in 1..Len(trace) : trace[i].step = <<"write", "flush", "read">>[i]
       /\ Len(trace) >= 2 => trace[2].stream = trace[1].stream
       /\ stdin # stdinAtCall => Len(trace) >= 2
       /\ failed.step \in {"write", "flush"} => stdin = stdinAtCall

C9_Witness ==
    /\ op = "eprompt" /\ Returned
    /\ Len(trace) = 3
    /\ stdinAtCall = <<"a", LF, "a">>
    /\ stdin = <<"a">>

\* C10: the abort message names the failed step: a failed write or flush is
\* reported as a write failure on the stream the variant prompts on, a failed
\* read as a failure reading from stdin in all four variants.
C10_AbortMessageNamesStep ==
    (pc = "panicked" /\ op \in Prompts)
    => /\ failed.step \in {"write", "flush"}
            => result.msg \in WriteFailureMsgs(DocumentedStream(op))
       /\ failed.step = "read" => result.msg = "failed reading from stdin"

====
